---- MODULE Spec2Model ----
(***************************************************************************)
(* CostBench per-company workbook builder (src/app.py).                    *)
(*                                                                         *)
(* One request to POST /buildPerCompanyWorkbook is modelled as a state     *)
(* machine: the handler build() checks the API key and the file list,     *)
(* then walks the files in caller order (download, dispatch on the file    *)
(* kind, extract, extend all_rows) and finally calls write_workbook.       *)
(* Strings are TLA+ strings handled character by character, so that the    *)
(* regular expressions, the substring tests and the sheet-name             *)
(* sanitisation are computed the way the code computes them.               *)
(* Amounts are Python floats in the code; here they are fixed-point        *)
(* integers counting hundredths, and a quotient is kept as the exact       *)
(* pair <<numerator, denominator>>.                                        *)
(***************************************************************************)
EXTENDS Integers, Sequences, FiniteSets, TLC

VARIABLES req, pc, idx, all_rows, frames, workbook, status

vars == <<req, pc, idx, all_rows, frames, workbook, status>>

(***************************************************************************)
(* An Optional value is a tuple: <<>> is None, <<v>> is the value v.  A    *)
(* report cell that holds a number or the blank "" is written the same     *)
(* way, <<>> being the blank.                                              *)
(***************************************************************************)
None == <<>>

Some(v) == <<v>>

\* the blank cell "" written for an absent amount or percentage
Blank == <<>>

(***************************************************************************)
(* Character-level string helpers (str methods used by the code).          *)
(***************************************************************************)
Char(s, i) == SubSeq(s, i, i)

\* k in c
Contains(c, k) ==
    \E i \in 1..(Len(c) - Len(k) + 1) : SubSeq(c, i, i + Len(k) - 1) = k

\* c is one character of the class written as the string cls
InClass(c, cls) == \E i \in 1..Len(cls) : Char(cls, i) = c

StartsWith(s, p) == Len(s) >= Len(p) /\ SubSeq(s, 1, Len(p)) = p

EndsWith(s, p) == Len(s) >= Len(p) /\ SubSeq(s, Len(s) - Len(p) + 1, Len(s)) = p

UpperChars == "ABCDEFGHIJKLMNOPQRSTUVWXYZ"
LowerChars == "abcdefghijklmnopqrstuvwxyz"
Digits == "0123456789"
\* \s as far as the inputs go: space, tab, no-break space
Whitespace == " \t "
\* \w : letters (accented ones included, Python 3 str patterns), digits, _
WordChars == LowerChars \o UpperChars \o Digits \o "_" \o "éèêûôÉ"

LowerChar(c) ==
    IF InClass(c, UpperChars)
    THEN Char(LowerChars, CHOOSE i \in 1..Len(UpperChars) : Char(UpperChars, i) = c)
    ELSE c

RECURSIVE MapChars(_, _, _)
\* s with every character of the class cls replaced by the string by
MapChars(s, cls, by) ==
    IF s = "" THEN ""
    ELSE (IF InClass(Head(s), cls) THEN by ELSE Head(s)) \o MapChars(Tail(s), cls, by)

RECURSIVE Lower(_)
\* str.lower()
Lower(s) == IF s = "" THEN "" ELSE LowerChar(Head(s)) \o Lower(Tail(s))

RECURSIVE LStrip(_)
LStrip(s) == IF s # "" /\ InClass(Head(s), Whitespace) THEN LStrip(Tail(s)) ELSE s

RECURSIVE RStrip(_)
RStrip(s) ==
    IF s # "" /\ InClass(Char(s, Len(s)), Whitespace)
    THEN RStrip(SubSeq(s, 1, Len(s) - 1)) ELSE s

\* str.strip()
Strip(s) == RStrip(LStrip(s))

(***************************************************************************)
(* The part of the re module the code uses.  A pattern is a sequence of    *)
(* atoms: a character class with a repetition range, or the assertion \b.  *)
(* An alternation is a set of patterns.                                    *)
(***************************************************************************)
Cls(cls, lo, hi) == <<[t |-> "cls", chars |-> cls, lo |-> lo, hi |-> hi]>>
One(cls) == Cls(cls, 1, 1)
Opt(cls) == Cls(cls, 0, 1)
\* an upper limit of -1 is no limit
Star(cls) == Cls(cls, 0, -1)
Plus(cls) == Cls(cls, 1, -1)
B == <<[t |-> "b", chars |-> "", lo |-> 0, hi |-> 0]>>

RECURSIVE Lit(_)
\* a literal string as a pattern
Lit(s) == IF s = "" THEN <<>> ELSE One(Head(s)) \o Lit(Tail(s))

IsWordAt(s, i) == i >= 1 /\ i <= Len(s) /\ InClass(Char(s, i), WordChars)

\* \b holds before position i of s
Boundary(s, i) == IsWordAt(s, i - 1) # IsWordAt(s, i)

\* how many characters from position i on are in the class, at most hi
\* (hi = -1: no limit)
RECURSIVE Run(_, _, _, _)
Run(s, i, cls, hi) ==
    IF hi = 0 \/ i > Len(s) \/ ~InClass(Char(s, i), cls) THEN 0
    ELSE 1 + Run(s, i + 1, cls, hi - 1)

RECURSIVE MatchEnds(_, _, _)
\* the positions just after a match of pat that starts at position i of s
MatchEnds(s, i, pat) ==
    IF pat = <<>> THEN {i}
    ELSE LET a == Head(pat) IN
         IF a.t = "b"
         THEN IF Boundary(s, i) THEN MatchEnds(s, i, Tail(pat)) ELSE {}
         ELSE UNION { MatchEnds(s, i + n, Tail(pat)) :
                        n \in a.lo..Run(s, i, a.chars, a.hi) }

\* re.search(alternation, s) is not None
Search(alts, s) ==
    \E pat \in alts : \E i \in 1..(Len(s) + 1) : MatchEnds(s, i, pat) # {}

\* re.match(^alternation$, s) is not None
FullMatch(alts, s) == \E pat \in alts : (Len(s) + 1) \in MatchEnds(s, 1, pat)

\* \b(alt1|alt2|...)\b
Words(alts) == { B \o p \o B : p \in alts }

(***************************************************************************)
(* try_number (src/app.py:59-66).  The argument is str(x) of the cell or   *)
(* token, or None.  The result is None or the number in hundredths.        *)
(***************************************************************************)
NBSP == Char(Whitespace, 3)

\* ^-?\d+(\.\d+)?$
NumberPattern ==
    { Opt("-") \o Plus(Digits),
      Opt("-") \o Plus(Digits) \o One(".") \o Plus(Digits) }

DigitVal(c) == (CHOOSE i \in 1..Len(Digits) : Char(Digits, i) = c) - 1

RECURSIVE DigitsVal(_, _)
\* the value of a digit string, acc being the value of the digits read so far
DigitsVal(s, acc) ==
    IF s = "" THEN acc ELSE DigitsVal(Tail(s), 10 * acc + DigitVal(Head(s)))

\* the position of the first "." of s, or 0
DotAt(s) ==
    IF Contains(s, ".") THEN CHOOSE i \in 1..Len(s) :
                                /\ Char(s, i) = "."
                                /\ ~Contains(SubSeq(s, 1, i - 1), ".")
    ELSE 0

\* float(s) of a string matching NumberPattern, in hundredths (fraction digits
\* beyond the second are not represented)
Float(s) ==
    LET neg == StartsWith(s, "-")
        u == IF neg THEN Tail(s) ELSE s
        d == DotAt(u)
        ip == IF d = 0 THEN u ELSE SubSeq(u, 1, d - 1)
        fp == IF d = 0 THEN "" ELSE SubSeq(u, d + 1, Len(u))
        f2 == SubSeq(fp \o "00", 1, 2)
        v == 100 * DigitsVal(ip, 0) + DigitsVal(f2, 0)
    IN IF neg THEN 0 - v ELSE v

try_number(x) ==
    IF x = None THEN None
    ELSE LET s == MapChars(MapChars(MapChars(Strip(x[1]), " ", ""), ",", ""), NBSP, "")
             neg == StartsWith(s, "(") /\ EndsWith(s, ")")
             t == MapChars(s, "()", "")
         IN IF ~FullMatch(NumberPattern, t) THEN None
            ELSE Some(IF neg THEN 0 - Float(t) ELSE Float(t))

(***************************************************************************)
(* The canonical line items and the classifier (src/app.py:17-44, 68-73).  *)
(***************************************************************************)
FIXED_ROWS == <<
    "Revenue | Product", "Revenue | Services", "Revenue | Other Operating Revenue",
    "COGS | Materials", "COGS | Direct Labor", "COGS | Purchased Services", "COGS | Other COGS",
    "Gross Profit (derived)",
    "OpEx | Sales & Marketing | People", "OpEx | Sales & Marketing | Media/Ads",
    "OpEx | Sales & Marketing | Agencies", "OpEx | Sales & Marketing | Events",
    "OpEx | Sales & Marketing | Software/Tools",
    "OpEx | General & Administrative | People", "OpEx | General & Administrative | Facilities",
    "OpEx | General & Administrative | Professional Services",
    "OpEx | General & Administrative | IT/Software", "OpEx | General & Administrative | Travel",
    "OpEx | General & Administrative | Other G&A",
    "OpEx | Research & Development | People", "OpEx | Research & Development | Contractors",
    "OpEx | Research & Development | Cloud/Compute",
    "OpEx | Research & Development | Labs/Prototyping",
    "OpEx | Research & Development | Other R&D",
    "Depreciation", "Amortization",
    "Other Operating | Grants/Subsidies", "Other Operating | Gains/Losses on Disposals",
    "Other Operating | Restructuring",
    "Operating Profit (EBIT) (derived)",
    "Below Operating | Net Interest", "Below Operating | FX Gains/Losses",
    "Below Operating | Associates/JVs",
    "Tax | Current", "Tax | Deferred",
    "Net Income (derived)" >>

\* the (pattern, fixed) rules in order; x? is written Opt, [xy] a class, \s* Star
LABEL_MAP == <<
    [pattern |-> Words({ Lit("advertis"), Lit("marketing"), Lit("media"), Lit("pub"),
                         Lit("publicit") \o One("eé") }),
     fixed |-> "OpEx | Sales & Marketing | Media/Ads"],
    [pattern |-> Words({ Lit("g") \o Star("& ") \o Lit("a"),
                         Lit("frais") \o Star(Whitespace) \o Lit("g") \o One("ée")
                            \o Lit("n") \o One("ée") \o Lit("raux"),
                         Lit("administrative") }),
     fixed |-> "OpEx | General & Administrative | People"],
    [pattern |-> Words({ Lit("r&d"), Lit("recherche"), Lit("entwicklung"), Lit("research") }),
     fixed |-> "OpEx | Research & Development | People"],
    [pattern |-> Words({ Lit("cost of sales"),
                         Lit("co") \o One("uû") \o Lit("t des ventes"),
                         Lit("cogs") }),
     fixed |-> "COGS | Other COGS"],
    [pattern |-> Words({ Lit("materials"), Lit("mati") \o One("eè") \o Lit("res") }),
     fixed |-> "COGS | Materials"],
    [pattern |-> Words({ Lit("direct labor"),
                         Lit("main d") \o Opt("'") \o Lit("oeuvre"),
                         Lit("personnel direct") }),
     fixed |-> "COGS | Direct Labor"],
    [pattern |-> Words({ Lit("service") \o Opt("s") \o Lit(" achet") \o One("ée") \o Lit("s"),
                         Lit("purchased services") }),
     fixed |-> "COGS | Purchased Services"],
    [pattern |-> Words({ Lit("revenue"), Lit("chiffre d'affaires"), Lit("sales") }),
     fixed |-> "Revenue | Product"],
    [pattern |-> Words({ Lit("depreciation"), Lit("amortissement technique") }),
     fixed |-> "Depreciation"],
    [pattern |-> Words({ Lit("amortization"), Lit("amortissement incorporel") }),
     fixed |-> "Amortization"],
    [pattern |-> Words({ Lit("taxe") \o Opt("s"), Lit("imp") \o One("oô") \o Lit("t") \o Opt("s") }),
     fixed |-> "Tax | Current"] >>

\* normalize_label falling back to the raw label when no rule matches
normalize_label_raw(label) ==
    IF label = "" THEN None
    ELSE LET low == Lower(label)
             hits == { k \in 1..Len(LABEL_MAP) : Search(LABEL_MAP[k].pattern, low) }
         IN IF hits = {} THEN Some(label)
            ELSE Some(LABEL_MAP[CHOOSE k \in hits : \A j \in hits : k <= j].fixed)

\* the canonical item of the first rule whose pattern is found in the
\* lower-cased label, None when the label is empty or no rule matches
normalize_label(label) ==
    IF label = "" THEN None
    ELSE LET low == Lower(label)
             hits == { k \in 1..Len(LABEL_MAP) : Search(LABEL_MAP[k].pattern, low) }
         IN IF hits = {} THEN None
            ELSE Some(LABEL_MAP[CHOOSE k \in hits : \A j \in hits : k <= j].fixed)

(***************************************************************************)
(* Sequence helpers.                                                       *)
(***************************************************************************)
RECURSIVE Flatten(_)
\* the concatenation of a sequence of sequences
Flatten(ss) == IF ss = <<>> THEN <<>> ELSE Head(ss) \o Flatten(Tail(ss))

\* the least element of a non-empty set of integers
Least(S) == CHOOSE k \in S : \A j \in S : k <= j

(***************************************************************************)
(* Path(fname).stem (src/app.py:96, 121): the final path component         *)
(* without its last suffix.                                                *)
(***************************************************************************)
RECURSIVE Basename(_)
Basename(p) ==
    IF Contains(p, "/")
    THEN Basename(SubSeq(p, 1 + Least({ i \in 1..Len(p) : Char(p, i) = "/" }), Len(p)))
    ELSE IF p = "." THEN "" ELSE p

Stem(fname) ==
    LET name == Basename(fname)
        dots == { i \in 1..Len(name) : Char(name, i) = "." }
        i == IF dots = {} THEN 0 ELSE CHOOSE k \in dots : \A j \in dots : j <= k
    IN IF 1 < i /\ i < Len(name) THEN SubSeq(name, 1, i - 1) ELSE name

(***************************************************************************)
(* extract_from_excel (src/app.py:75-103).  The decoded workbook is a      *)
(* sequence of sheets, each with its column names and its data rows; a     *)
(* cell is the str() of its value.                                         *)
(***************************************************************************)
LabelKeys == <<"label", "item", "intitul", "description", "account">>
AmountKeys == <<"amount", "montant", "value", "valeur", "total">>
YearKeys == <<"year", "exercice", "fy", "fiscal">>
CurrencyKeys == <<"curr", "devise", "currency">>

\* the index of the column col_like returns, 0 for None: the keys are tried
\* in order, and for the first key found in some column name the first such
\* column is returned
col_like(cols, keys) ==
    LET found == { k \in 1..Len(keys) : \E i \in 1..Len(cols) : Contains(cols[i], keys[k]) }
    IN IF found = {} THEN 0
       ELSE Least({ i \in 1..Len(cols) : Contains(cols[i], keys[Least(found)]) })

\* ResolveBase without the test for the sentinel "NONE"
ResolveBase_sentinel(base_currency, detected) ==
    IF base_currency # None /\ base_currency[1] # "" THEN base_currency[1] ELSE detected

\* base_currency if base_currency and base_currency != "NONE" else detected
ResolveBase(base_currency, detected) ==
    IF base_currency # None /\ base_currency[1] # "" /\ base_currency[1] # "NONE"
    THEN base_currency[1] ELSE detected

ExcelSheetRows(sheet, fname, base_currency) ==
    LET cols == [i \in 1..Len(sheet.columns) |-> Lower(Strip(sheet.columns[i]))]
        c_label == col_like(cols, LabelKeys)
        c_amt == col_like(cols, AmountKeys)
        c_year == col_like(cols, YearKeys)
        c_ccy == col_like(cols, CurrencyKeys)
        Label(r) == IF c_label = 0 THEN "" ELSE r[c_label]
        kept == SelectSeq(sheet.rows, LAMBDA r : normalize_label(Label(r)) # None)
    IN [k \in 1..Len(kept) |->
          LET r == kept[k] IN
          [company_name |-> Stem(fname),
           fiscal_year |-> IF c_year # 0 THEN r[c_year] ELSE "",
           reporting_currency |-> IF c_ccy # 0 THEN r[c_ccy] ELSE "",
           base_currency |-> ResolveBase(base_currency, IF c_ccy # 0 THEN r[c_ccy] ELSE ""),
           line_item |-> normalize_label(Label(r))[1],
           amount |-> try_number(IF c_amt = 0 THEN None ELSE Some(r[c_amt]))]]

extract_from_excel(content, fname, base_currency) ==
    Flatten([s \in 1..Len(content.sheets) |->
                ExcelSheetRows(content.sheets[s], fname, base_currency)])

(***************************************************************************)
(* extract_from_pdf (src/app.py:105-128).  The decoded document is the     *)
(* sequence of the lines of its text.                                      *)
(***************************************************************************)
\* \bUSD|\$|US\$|dollars?\b , \bEUR|€\b , \bGBP|£\b  (re.I: on the lower-cased text)
UsdPattern == { B \o Lit("usd"), Lit("$"), Lit("us$"), Lit("dollar") \o Opt("s") \o B }
EurPattern == { B \o Lit("eur"), Lit("€") \o B }
GbpPattern == { B \o Lit("gbp"), Lit("£") \o B }

DetectCurrency(lines) ==
    LET Has(pat) == \E i \in 1..Len(lines) : Search(pat, Lower(lines[i]))
    IN IF Has(UsdPattern) THEN "USD"
       ELSE IF Has(EurPattern) THEN "EUR"
       ELSE IF Has(GbpPattern) THEN "GBP" ELSE ""

\* [\s:\-]+ and [\(\)\-\d\s,\.]+
SepClass == Whitespace \o ":-"
NumClass == "()-" \o Digits \o Whitespace \o ",."

\* re.search(r"(.*?)[\s:\-]+([\(\)\-\d\s,\.]+)$", line): None, or the two groups.
\* Group 1 is the shortest prefix after which the rest of the pattern matches;
\* the separator is then as long as leaves a non-empty numeric tail.
SplitLine(line) ==
    LET Tail2 == Plus(SepClass) \o Plus(NumClass)
        starts == { e \in 0..Len(line) : (Len(line) + 1) \in MatchEnds(line, e + 1, Tail2) }
    IN IF starts = {} THEN None
       ELSE LET e == Least(starts)
                seps == { m \in 1..Run(line, e + 1, SepClass, -1) :
                            (Len(line) + 1) \in MatchEnds(line, e + m + 1, Plus(NumClass)) }
                m == CHOOSE k \in seps : \A j \in seps : j <= k
            IN Some([label_raw |-> SubSeq(line, 1, e),
                     num_raw |-> SubSeq(line, e + m + 1, Len(line))])

\* the row a text line yields, as a sequence of zero or one rows
PdfLineRows(raw, fname, base_currency, rep_ccy) ==
    LET line == Strip(raw)
        m == IF line = "" THEN None ELSE SplitLine(line)
        fixed == IF m = None THEN None ELSE normalize_label(m[1].label_raw)
        amt == IF fixed = None THEN None ELSE try_number(Some(m[1].num_raw))
    IN IF amt = None THEN <<>>
       ELSE << [company_name |-> Stem(fname),
                fiscal_year |-> "",
                reporting_currency |-> rep_ccy,
                base_currency |-> ResolveBase(base_currency, rep_ccy),
                line_item |-> fixed[1],
                amount |-> amt] >>

extract_from_pdf(content, fname, base_currency) ==
    LET rep_ccy == DetectCurrency(content.lines)
    IN Flatten([i \in 1..Len(content.lines) |->
                   PdfLineRows(content.lines[i], fname, base_currency, rep_ccy)])

(***************************************************************************)
(* write_workbook (src/app.py:130-159).                                    *)
(***************************************************************************)
\* the by_co key of a row: r["company_name"] or "Company"
CompanyKey(r) == IF r.company_name # "" THEN r.company_name ELSE "Company"

RECURSIVE Companies(_, _)
\* the keys of by_co in insertion order, seen being the keys so far
Companies(rows, seen) ==
    IF rows = <<>> THEN seen
    ELSE Companies(Tail(rows),
                   IF \E i \in 1..Len(seen) : seen[i] = CompanyKey(Head(rows))
                   THEN seen ELSE Append(seen, CompanyKey(Head(rows))))

\* by_co[company]
Items(rows, company) == SelectSeq(rows, LAMBDA r : CompanyKey(r) = company)

RECURSIVE SumRevenue(_)
\* sum(float(i.get("amount") or 0) for i in items if line_item.startswith("Revenue"))
SumRevenue(items) ==
    IF items = <<>> THEN 0
    ELSE (IF StartsWith(Head(items).line_item, "Revenue") /\ Head(items).amount # None
          THEN Head(items).amount[1] ELSE 0) + SumRevenue(Tail(items))

total_rev(items) == SumRevenue(items)

\* LookupAmount keeping the first row of an item instead of the last
LookupAmount_first(items, line) ==
    LET at == { k \in 1..Len(items) : items[k].line_item = line }
    IN IF at = {} THEN None
       ELSE items[CHOOSE k \in at : \A j \in at : k <= j].amount

\* lookup.get(line, {}).get("amount", None), lookup = {i["line_item"]: i for i in items}
LookupAmount(items, line) ==
    LET at == { k \in 1..Len(items) : items[k].line_item = line }
    IN IF at = {} THEN None
       ELSE items[CHOOSE k \in at : \A j \in at : j <= k].amount

\* Percent without the test of total_rev
Percent_unguarded(amt, total) == IF amt # None THEN <<amt[1], total>> ELSE Blank

\* (amt/total_rev) if (total_rev and isinstance(amt,(int,float))) else ""
Percent(amt, total) == IF total # 0 /\ amt # None THEN <<amt[1], total>> ELSE Blank

\* ReportRows walking the rows the company has instead of FIXED_ROWS
ReportRows_hit(items) ==
    LET meta == items[1]
    IN [k \in 1..Len(items) |->
          [company_name |-> meta.company_name,
           fiscal_year |-> meta.fiscal_year,
           reporting_currency |-> meta.reporting_currency,
           base_currency |-> IF meta.base_currency # "" THEN meta.base_currency
                             ELSE meta.reporting_currency,
           line_item |-> items[k].line_item,
           amount |-> IF items[k].amount # None THEN items[k].amount ELSE Blank,
           percent_of_revenue |-> Percent(items[k].amount, total_rev(items))]]

\* the rows of the DataFrame written for one company
ReportRows(items) ==
    LET meta == items[1]
    IN [k \in 1..Len(FIXED_ROWS) |->
          LET amt == LookupAmount(items, FIXED_ROWS[k]) IN
          [company_name |-> meta.company_name,
           fiscal_year |-> meta.fiscal_year,
           reporting_currency |-> meta.reporting_currency,
           base_currency |-> IF meta.base_currency # "" THEN meta.base_currency
                             ELSE meta.reporting_currency,
           line_item |-> FIXED_ROWS[k],
           amount |-> IF amt # None THEN amt ELSE Blank,
           percent_of_revenue |-> Percent(amt, total_rev(items))]]

TemplateRows ==
    [k \in 1..Len(FIXED_ROWS) |->
        [company_name |-> "", fiscal_year |-> "", reporting_currency |-> "",
         base_currency |-> "", line_item |-> FIXED_ROWS[k],
         amount |-> Blank, percent_of_revenue |-> Blank]]

SheetNameMax == 31

\* re.sub(r'[\\/?*\[\]:]', '_', company)[:31] or "Company"
SafeName(company) ==
    LET sub == MapChars(company, "\\/?*[]:", "_")
        cut == IF Len(sub) > SheetNameMax THEN SubSeq(sub, 1, SheetNameMax) ELSE sub
    IN IF cut # "" THEN cut ELSE "Company"

\* df.to_excel(xw, sheet_name=name): a name the workbook already holds is
\* written into the sheet of that name (same cells, so its rows are replaced);
\* any other name adds a sheet
ToExcel(wb, name, rows) ==
    IF \E i \in 1..Len(wb) : wb[i].name = name
    THEN [i \in 1..Len(wb) |-> IF wb[i].name = name THEN [name |-> name, rows |-> rows]
                               ELSE wb[i]]
    ELSE Append(wb, [name |-> name, rows |-> rows])

\* the DataFrames written, one per by_co entry, in order
Frames(rows) ==
    LET cos == Companies(rows, <<>>)
    IN [c \in 1..Len(cos) |->
          [company |-> cos[c],
           sheet |-> SafeName(cos[c]),
           total_rev |-> total_rev(Items(rows, cos[c])),
           rows |-> ReportRows(Items(rows, cos[c]))]]

RECURSIVE WriteFrames(_, _)
WriteFrames(wb, fs) ==
    IF fs = <<>> THEN wb
    ELSE WriteFrames(ToExcel(wb, Head(fs).sheet, Head(fs).rows), Tail(fs))

\* write_workbook without the template branch
write_workbook_no_template(rows) == WriteFrames(<<>>, Frames(rows))

\* the sheets of the workbook write_workbook(rows, out_path) leaves
write_workbook(rows) ==
    IF rows = <<>>
    THEN << [name |-> "Company_Template", rows |-> TemplateRows] >>
    ELSE WriteFrames(<<>>, Frames(rows))

(***************************************************************************)
(* The requests.  A FileRef carries its name, its content type and what    *)
(* its dataUri decodes to or its contentUrl answers; a body is a decoded   *)
(* spreadsheet, a decoded PDF or bytes that are neither.                   *)
(***************************************************************************)
MaxFiles == 2

Xlsx(sheets) == [kind |-> "xlsx", sheets |-> sheets, lines |-> <<>>]
Pdf(lines) == [kind |-> "pdf", sheets |-> <<>>, lines |-> lines]
Raw == [kind |-> "raw", sheets |-> <<>>, lines |-> <<>>]

FileRef(name, contentType, dataUri, contentUrl) ==
    [name |-> name, contentType |-> contentType, dataUri |-> dataUri,
     contentUrl |-> contentUrl]

\* what a GET of contentUrl returns
Reply(ok, body) == [ok |-> ok, body |-> body]

RECURSIVE Rep(_, _)
Rep(c, n) == IF n = 0 THEN "" ELSE c \o Rep(c, n - 1)

\* two currencies in one company, an unclassified row, a zero and a negative amount
SheetLedger ==
    [columns |-> <<"Label", "Amount", "Currency", "FY">>,
     rows |-> << <<"Sales", "1000.0", "USD", "2023">>,
                 <<"Marketing", "250.0", "EUR", "2023">>,
                 <<"Misc", "5.0", "USD", "2023">>,
                 <<"Depreciation", "0", "USD", "2023">>,
                 <<"Taxes", "(12.5)", "USD", "2023">> >>]
\* several rows for one item, the last one without a number; a zero amount
SheetRepeats ==
    [columns |-> <<"Item", "Total">>,
     rows |-> << <<"Revenue", "100">>, <<"Sales", "50">>, <<"Impôts", "(30)">>,
                 <<"Taxes", "0">>, <<"COGS", "40">>, <<"Cogs", "n/a">> >>]
\* two columns a label synonym names, the later synonym first in the table
SheetAccounts ==
    [columns |-> <<"Account", " Label ", "Montant", "Devise">>,
     rows |-> << <<"Revenue", "Misc", "(50)", "GBP">>,
                 <<"Other", "Sales", "100", "GBP">>,
                 <<"Taxes", "R&D", "-20", "EUR">> >>]
\* no label column
SheetNoLabel ==
    [columns |-> <<"Montant", "Devise">>,
     rows |-> << <<"100", "EUR">> >>]
\* costs only: no revenue at all
SheetCosts ==
    [columns |-> <<"description", "value">>,
     rows |-> << <<"Materials", "40">>, <<"Depreciation", "nan">> >>]

TextUsd == <<"Income statement (USD)", "", "Sales: 1,000", "Cost of sales (400)",
             "Total 7", "Marketing n/a">>
TextEur == <<"Chiffre d'affaires 2 000", "Revenue - 500", "Amortization: 12.5", "en EUR">>
TextNone == <<"Annual report", "Marketing n/a", "Total 7">>

LongName1 == Rep("x", 30) \o "_.pdf"
LongName2 == Rep("x", 30) \o "*yz.pdf"

SheetType == "application/vnd.openxmlformats-officedocument.spreadsheetml.sheet"

Files == {
    FileRef("in/acme.xlsx", None, Some(Xlsx(<<SheetLedger>>)), None),
    FileRef("in/acme.xlsx", None, Some(Xlsx(<<SheetRepeats>>)), None),
    FileRef("a?b.xls", None, Some(Xlsx(<<SheetAccounts>>)), None),
    FileRef("a?b.xls", Some(SheetType), None, Some(Reply(TRUE, Xlsx(<<SheetNoLabel, SheetCosts>>)))),
    FileRef("acme.pdf", None, Some(Pdf(TextUsd)), None),
    FileRef("a:b.PDF", None, Some(Pdf(TextEur)), None),
    FileRef("acme.pdf", Some("application/pdf"), Some(Pdf(TextNone)), None),
    FileRef("notes.txt", Some("text/plain"), Some(Raw), None),
    FileRef("notes.txt", None, None, None),
    FileRef("report", Some(SheetType), Some(Xlsx(<<SheetCosts>>)), None),
    FileRef(".", Some("application/pdf"), Some(Pdf(TextUsd)), None),
    FileRef(LongName1, None, Some(Pdf(TextEur)), None),
    FileRef(LongName2, None, Some(Pdf(TextUsd)), None),
    FileRef("acme.xlsx", None, None, Some(Reply(FALSE, Raw))),
    FileRef("acme.xlsx", None, Some(Pdf(TextUsd)), None) }

RECURSIVE SeqsUpTo(_, _)
\* the sequences over S of length at most n
SeqsUpTo(S, n) ==
    IF n = 0 THEN { <<>> }
    ELSE LET shorter == SeqsUpTo(S, n - 1)
         IN shorter \cup { Append(q, x) : q \in shorter, x \in S }

BaseCurrencies == { None, Some("NONE"), Some("CHF") }

\* BuildReq
Requests ==
    { [files |-> fs, baseCurrency |-> bc] : fs \in SeqsUpTo(Files, MaxFiles),
                                           bc \in BaseCurrencies }

\* the API_KEY of the deployment ("" : no check) and the x-api-key headers sent
ApiKeys == { "", "secret" }
Headers == { None, Some("secret"), Some("guess") }

(***************************************************************************)
(* _download_file (src/app.py:161-169) and the dispatch of build on the    *)
(* kind of a file (src/app.py:181-187).                                    *)
(***************************************************************************)
\* [status, body]: status 200 and the bytes, or the status of the failure
\* (400 from the HTTPException, 500 from raise_for_status)
download_file(f) ==
    IF f.dataUri # None THEN [status |-> 200, body |-> f.dataUri[1]]
    ELSE IF f.contentUrl # None
         THEN IF f.contentUrl[1].ok THEN [status |-> 200, body |-> f.contentUrl[1].body]
              ELSE [status |-> 500, body |-> Raw]
         ELSE [status |-> 400, body |-> Raw]

ContentTypeOf(f) == IF f.contentType = None THEN "" ELSE f.contentType[1]

IsExcel(f) ==
    \/ EndsWith(Lower(f.name), ".xlsx")
    \/ EndsWith(Lower(f.name), ".xls")
    \/ EndsWith(ContentTypeOf(f), "sheet")

IsPdf(f) ==
    /\ ~IsExcel(f)
    /\ (EndsWith(Lower(f.name), ".pdf") \/ EndsWith(ContentTypeOf(f), "pdf"))

Recognized(f) == IsExcel(f) \/ IsPdf(f)

\* f.name or "file.xlsx" / f.name or "file.pdf"
NameOr(f, default) == IF f.name # "" THEN f.name ELSE default

\* the rows one file adds to all_rows, given its bytes
FileRows(f, body, base_currency) ==
    IF IsExcel(f) THEN extract_from_excel(body, NameOr(f, "file.xlsx"), base_currency)
    ELSE IF IsPdf(f) THEN extract_from_pdf(body, NameOr(f, "file.pdf"), base_currency)
    ELSE <<>>

\* FileRows of every file of the catalogue that downloads, per base currency
\* (a table of the pure function, computed once)
CatalogueRows ==
    [f \in { g \in Files : download_file(g).status = 200 } |->
        [bc \in BaseCurrencies |-> FileRows(f, download_file(f).body, bc)]]

\* pd.ExcelFile / pdfplumber.open raise on bytes of another kind
Unreadable(f, body) ==
    \/ IsExcel(f) /\ body.kind # "xlsx"
    \/ IsPdf(f) /\ body.kind # "pdf"

(***************************************************************************)
(* build (src/app.py:171-193), one request.                                *)
(***************************************************************************)
Init ==
    /\ req \in Requests
    /\ pc = "start"
    /\ idx = 1
    /\ all_rows = <<>>
    /\ frames = <<>>
    /\ workbook = <<>>
    /\ status = 0

Fail(code) ==
    /\ pc' = "failed"
    /\ status' = code
    /\ UNCHANGED <<req, idx, all_rows, frames, workbook>>

\* if API_KEY and x_api_key != API_KEY
Refused(API_KEY, x_api_key) == API_KEY # "" /\ x_api_key # Some(API_KEY)

\* lines 173-174
Unauthorized ==
    /\ pc = "start"
    /\ \E API_KEY \in ApiKeys, x_api_key \in Headers : Refused(API_KEY, x_api_key)
    /\ Fail(401)

Authorized == \E API_KEY \in ApiKeys, x_api_key \in Headers : ~Refused(API_KEY, x_api_key)

\* lines 175-176
NoFiles ==
    /\ pc = "start"
    /\ Authorized
    /\ req.files = <<>>
    /\ Fail(400)

\* line 178
Accept ==
    /\ pc = "start"
    /\ Authorized
    /\ req.files # <<>>
    /\ pc' = "loop"
    /\ UNCHANGED <<req, idx, all_rows, frames, workbook, status>>

\* line 180 raising
DownloadFails ==
    /\ pc = "loop"
    /\ idx <= Len(req.files)
    /\ download_file(req.files[idx]).status # 200
    /\ Fail(download_file(req.files[idx]).status)

\* lines 183, 185 raising
ExtractFails ==
    /\ pc = "loop"
    /\ idx <= Len(req.files)
    /\ download_file(req.files[idx]).status = 200
    /\ Unreadable(req.files[idx], download_file(req.files[idx]).body)
    /\ Fail(500)

\* lines 179-187, one turn of the loop
ProcessFile ==
    /\ pc = "loop"
    /\ idx <= Len(req.files)
    /\ download_file(req.files[idx]).status = 200
    /\ ~Unreadable(req.files[idx], download_file(req.files[idx]).body)
    /\ all_rows' = all_rows \o CatalogueRows[req.files[idx]][req.baseCurrency]
    /\ idx' = idx + 1
    /\ UNCHANGED <<req, pc, frames, workbook, status>>

\* lines 189-193
WriteWorkbook ==
    /\ pc = "loop"
    /\ idx > Len(req.files)
    /\ frames' = Frames(all_rows)
    /\ workbook' = write_workbook(all_rows)
    /\ pc' = "done"
    /\ status' = 200
    /\ UNCHANGED <<req, idx, all_rows>>

Next ==
    \/ Unauthorized
    \/ NoFiles
    \/ Accept
    \/ DownloadFails
    \/ ExtractFails
    \/ ProcessFile
    \/ WriteWorkbook

Spec == Init /\ [][Next]_vars

(***************************************************************************)
(* Vocabulary of the properties.                                           *)
(***************************************************************************)
Terminal == pc \in {"done", "failed"}

Range(s) == { s[i] : i \in DOMAIN s }

RECURSIVE SumSeq(_)
SumSeq(s) == IF s = <<>> THEN 0 ELSE Head(s) + SumSeq(Tail(s))

\* the files the loop has been through
Processed == 1..(idx - 1)

\* no base-currency override: absent or the sentinel
NoOverride == req.baseCurrency = None \/ req.baseCurrency = Some("NONE")

\* the rows of all_rows that belong to the company of a written frame
RowsOf(f) == Items(all_rows, f.company)

\* some rule of LABEL_MAP is found in the text
AnyRule(text) == \E k \in 1..Len(LABEL_MAP) : Search(LABEL_MAP[k].pattern, Lower(text))

\* per file: the number of source rows (table rows, non-blank text lines), and
\* of those in which some rule is found at all
SourceCount ==
    [f \in DOMAIN CatalogueRows |->
        LET body == download_file(f).body
        IN SumSeq([s \in 1..Len(body.sheets) |-> Len(body.sheets[s].rows)])
           + Len(SelectSeq(body.lines, LAMBDA l : Strip(l) # ""))]

SourceHits ==
    [f \in DOMAIN CatalogueRows |->
        LET body == download_file(f).body
        IN SumSeq([s \in 1..Len(body.sheets) |->
                     Len(SelectSeq(body.sheets[s].rows,
                                   LAMBDA r : \E c \in 1..Len(r) : AnyRule(r[c])))])
           + Len(SelectSeq(body.lines, AnyRule))]

\* the rows the request's files yield, file after file in the caller's order
RowsInOrder(files) ==
    Flatten([j \in 1..Len(files) |-> CatalogueRows[files[j]][req.baseCurrency]])

\* the index of a canonical item in FIXED_ROWS
ItemIndex(line) == CHOOSE k \in 1..Len(FIXED_ROWS) : FIXED_ROWS[k] = line

\* the workbook is the single template sheet: 36 canonical items in order,
\* every other field blank
TemplateOnly ==
    /\ Len(workbook) = 1
    /\ workbook[1].name = "Company_Template"
    /\ Len(workbook[1].rows) = 36
    /\ \A k \in 1..36 :
          LET row == workbook[1].rows[k] IN
          /\ row.line_item = FIXED_ROWS[k]
          /\ row.company_name = "" /\ row.fiscal_year = ""
          /\ row.reporting_currency = "" /\ row.base_currency = ""
          /\ row.amount = Blank /\ row.percent_of_revenue = Blank

(***************************************************************************)
(* C1: every per-company report write_workbook emits has exactly 36 rows,  *)
(* whose line_item column is FIXED_ROWS in that order (no item missing,    *)
(* repeated or reordered), however many source rows the company had and    *)
(* whichever items they hit; the sheets of the workbook hold such reports. *)
(***************************************************************************)
C1_FixedShape ==
    /\ Len(FIXED_ROWS) = 36
    /\ \A j, k \in 1..Len(FIXED_ROWS) : j # k => FIXED_ROWS[j] # FIXED_ROWS[k]
    /\ pc = "done" =>
          /\ \A i \in 1..Len(frames) :
                /\ Len(frames[i].rows) = 36
                /\ \A k \in 1..36 : frames[i].rows[k].line_item = FIXED_ROWS[k]
          /\ \A i \in 1..Len(workbook) :
                /\ Len(workbook[i].rows) = 36
                /\ \A k \in 1..36 : workbook[i].rows[k].line_item = FIXED_ROWS[k]

\* a workbook with a company of two source rows and one of six or more
C1_Witness ==
    /\ pc = "done"
    /\ \E i, j \in 1..Len(frames) :
          Len(RowsOf(frames[i])) = 2 /\ Len(RowsOf(frames[j])) >= 6

(***************************************************************************)
(* C2: every row the extractors append to all_rows has a line_item of      *)
(* FIXED_ROWS, and a source row in which no LABEL_MAP rule is found is     *)
(* never appended: the rows number at most the source rows of the          *)
(* processed files in which some rule is found.                            *)
(***************************************************************************)
C2_Canonical ==
    /\ \A i \in 1..Len(all_rows) : all_rows[i].line_item \in Range(FIXED_ROWS)
    /\ Len(all_rows) <= SumSeq([j \in Processed |-> SourceHits[req.files[j]]])

\* files with unclassifiable source rows went through, and rows were kept
C2_Witness ==
    /\ pc = "done"
    /\ all_rows # <<>>
    /\ \E j \in Processed : SourceHits[req.files[j]] < SourceCount[req.files[j]]
    /\ Len(all_rows) < SumSeq([j \in Processed |-> SourceCount[req.files[j]]])

(***************************************************************************)
(* C3 (as stated): whenever the pipeline is called and zero rows are       *)
(* extracted (no file given, no recognized file, or no classifiable row in *)
(* any file) it does not fail and emits exactly the template sheet.        *)
(***************************************************************************)
ZeroRowRequest ==
    \/ req.files = <<>>
    \/ \A j \in 1..Len(req.files) : ~Recognized(req.files[j])
    \/ \A j \in 1..Len(req.files) :
          /\ download_file(req.files[j]).status = 200
          /\ ~Unreadable(req.files[j], download_file(req.files[j]).body)
          /\ CatalogueRows[req.files[j]][req.baseCurrency] = <<>>

C4_Percent ==
    pc = "done" =>
       \A i \in 1..Len(frames) : \A k \in 1..Len(frames[i].rows) :
          LET row == frames[i].rows[k]
              total == total_rev(RowsOf(frames[i]))
          IN /\ (row.amount # Blank /\ total # 0) =>
                    row.percent_of_revenue = <<row.amount[1], total>>
             /\ (row.amount = Blank \/ total = 0) => row.percent_of_revenue = Blank
             /\ row.percent_of_revenue # Blank => row.percent_of_revenue[2] # 0

\* 250 of 1000; a zero and a negative amount over a revenue that is not zero;
\* an amount over a revenue of zero
C4_Witness ==
    /\ pc = "done"
    /\ \E i \in 1..Len(frames) : \E k \in 1..36 :
          frames[i].rows[k].percent_of_revenue = <<25000, 100000>>
    /\ \E i \in 1..Len(frames) : \E k, l \in 1..36 :
          /\ frames[i].total_rev # 0
          /\ frames[i].rows[k].amount = Some(0)
          /\ frames[i].rows[l].amount # Blank /\ frames[i].rows[l].amount[1] < 0
    /\ \E i \in 1..Len(frames) : \E k \in 1..36 :
          /\ frames[i].total_rev = 0
          /\ frames[i].rows[k].amount # Blank

(***************************************************************************)
(* C5 (as stated): with no base-currency override, rows of one company     *)
(* with different currencies keep their own reporting_currency and         *)
(* base_currency, as ClassifiedRows and in the report rows of their line   *)
(* items: the report row of an item carries the currency of a source row   *)
(* of that item.                                                           *)
(***************************************************************************)
C5_Original ==
    (NoOverride /\ pc = "done") =>
       /\ \A i \in 1..Len(all_rows) :
             all_rows[i].base_currency = all_rows[i].reporting_currency
       /\ \A i \in 1..Len(frames) : \A r \in Range(RowsOf(frames[i])) :
             \E q \in Range(RowsOf(frames[i])) :
                LET row == frames[i].rows[ItemIndex(r.line_item)] IN
                /\ q.line_item = r.line_item
                /\ row.reporting_currency = q.reporting_currency
                /\ row.base_currency = q.base_currency

(***************************************************************************)
(* C5 (amended): with no base-currency override every ClassifiedRow the    *)
(* extractors produce keeps its own currency (its base_currency is its own *)
(* reporting_currency, whatever the other rows of the company carry); in   *)
(* the report every row of a company carries the reporting_currency and    *)
(* base_currency of the first row of that company.                         *)
(***************************************************************************)
C5_Amended ==
    NoOverride =>
       /\ \A i \in 1..Len(all_rows) :
             all_rows[i].base_currency = all_rows[i].reporting_currency
       /\ pc = "done" =>
             \A i \in 1..Len(frames) : \A k \in 1..Len(frames[i].rows) :
                /\ frames[i].rows[k].reporting_currency = RowsOf(frames[i])[1].reporting_currency
                /\ frames[i].rows[k].base_currency = RowsOf(frames[i])[1].base_currency

\* a company whose rows carry two different currencies, no override
C5_Witness ==
    /\ pc = "done"
    /\ NoOverride
    /\ \E i \in 1..Len(frames) : \E r, q \in Range(RowsOf(frames[i])) :
          r.reporting_currency # q.reporting_currency

(***************************************************************************)
(* C6: a source whose kind is not recognized contributes no row and never  *)
(* makes the request fail, whatever its content reference is; the rows and *)
(* the workbook are those of the request without it.                       *)
(***************************************************************************)
C6_Original ==
    /\ (pc = "failed" /\ status # 401 /\ req.files # <<>>) => Recognized(req.files[idx])
    /\ pc = "done" =>
          /\ all_rows = RowsInOrder(SelectSeq(req.files, Recognized))
          /\ workbook = write_workbook(RowsInOrder(SelectSeq(req.files, Recognized)))

(***************************************************************************)
(* C7: for a non-empty row set the workbook holds exactly one sheet per    *)
(* distinct company, and two companies never share a sheet, also when      *)
(* their names are equal after sanitisation.                               *)
(***************************************************************************)
C7_Original ==
    (pc = "done" /\ all_rows # <<>>) =>
       /\ Len(workbook) = Cardinality({ CompanyKey(r) : r \in Range(all_rows) })
       /\ \A i, j \in 1..Len(frames) : i # j => frames[i].sheet # frames[j].sheet

(***************************************************************************)
(* C8: for each role the tabular extractor selects the first column in     *)
(* table order whose lower-cased, trimmed name contains any synonym of the *)
(* role, whatever the order of the synonyms; no such column: the role is   *)
(* absent.                                                                 *)
(***************************************************************************)
FirstWithAny(cols, keys) ==
    LET at == { i \in 1..Len(cols) : \E k \in 1..Len(keys) : Contains(cols[i], keys[k]) }
    IN IF at = {} THEN 0 ELSE Least(at)

C8_Original ==
    \A j \in Processed :
       LET f == req.files[j]
           body == download_file(f).body
       IN IsExcel(f) =>
             \A s \in 1..Len(body.sheets) :
                LET cols == [i \in 1..Len(body.sheets[s].columns) |->
                                Lower(Strip(body.sheets[s].columns[i]))]
                IN \A keys \in {LabelKeys, AmountKeys, YearKeys, CurrencyKeys} :
                      col_like(cols, keys) = FirstWithAny(cols, keys)

(***************************************************************************)
(* C9: when several rows of one company map to one canonical item, the     *)
(* report shows the amount of the last of them in iteration order (files   *)
(* in the caller's order, rows in source order within a file): blank if    *)
(* that row has no amount, whatever the earlier rows hold; an item without *)
(* a row is blank.                                                         *)
(***************************************************************************)
C9_LastWins ==
    pc = "done" =>
       /\ all_rows = RowsInOrder(req.files)
       /\ \A i \in 1..Len(frames) : \A k \in 1..Len(FIXED_ROWS) :
             LET at == { n \in 1..Len(all_rows) :
                           /\ CompanyKey(all_rows[n]) = frames[i].company
                           /\ all_rows[n].line_item = FIXED_ROWS[k] }
                 last == CHOOSE n \in at : \A m \in at : m <= n
             IN frames[i].rows[k].amount =
                   IF at = {} THEN Blank ELSE all_rows[last].amount

\* one item of one company fed by two files with different amounts, the later
\* one shown; and an item whose last row has no amount after one that has
C9_Witness ==
    /\ pc = "done"
    /\ Len(req.files) = 2
    /\ \E i \in 1..Len(frames) : \E m, n \in 1..Len(all_rows) :
          /\ m <= Len(CatalogueRows[req.files[1]][req.baseCurrency])
          /\ n > Len(CatalogueRows[req.files[1]][req.baseCurrency])
          /\ CompanyKey(all_rows[m]) = frames[i].company
          /\ CompanyKey(all_rows[n]) = frames[i].company
          /\ all_rows[m].line_item = all_rows[n].line_item
          /\ all_rows[m].amount # all_rows[n].amount
          /\ all_rows[n].amount # None
          /\ frames[i].rows[ItemIndex(all_rows[n].line_item)].amount = all_rows[n].amount
    /\ \E i \in 1..Len(frames) : \E m, n \in 1..Len(all_rows) :
          /\ m < n
          /\ CompanyKey(all_rows[m]) = frames[i].company
          /\ CompanyKey(all_rows[n]) = frames[i].company
          /\ all_rows[m].line_item = all_rows[n].line_item
          /\ all_rows[m].amount # None
          /\ all_rows[n].amount = None
          /\ frames[i].rows[ItemIndex(all_rows[n].line_item)].amount = Blank

(***************************************************************************)
(* C10: for every company the total_revenue that percent_of_revenue is     *)
(* divided by equals the sum of the amounts shown in the company's report  *)
(* rows whose line item begins with "Revenue" (blank counted as zero).     *)
(***************************************************************************)
C10_Original ==
    pc = "done" =>
       \A i \in 1..Len(frames) :
          frames[i].total_rev =
             SumSeq([k \in 1..Len(frames[i].rows) |->
                       IF /\ StartsWith(frames[i].rows[k].line_item, "Revenue")
                          /\ frames[i].rows[k].amount # Blank
                       THEN frames[i].rows[k].amount[1] ELSE 0])

====
